---- MODULE Spec2Model ----
(***************************************************************************)
(* SankeyChart (src/components/SankeyChart.tsx): the income-statement      *)
(* normalizer, the inference chain and the Sankey graph builder that run   *)
(* inside the component's useEffect, and the component state (data,       *)
(* error) that the effect writes.                                          *)
(*                                                                         *)
(* Amounts are exact reals in fixed point: one dollar is Scale units, so   *)
(* every product with 0.65, 0.7, 0.75, 1.5 and 1.25 of an amount given to  *)
(* one decimal place is an integer number of units.  IEEE-754 rounding and *)
(* the non-finite doubles (Infinity, NaN arithmetic) are not represented.  *)
(***************************************************************************)
EXTENDS Integers, Sequences, FiniteSets, TLC

VARIABLES
    incomeStatement,  \* the prop the component was last rendered with
    pending,          \* TRUE between a render and the run of its effect
    data,             \* useState<SankeyData | null>
    error,            \* useState<string | null>
    warned,           \* console.warn diagnostics of the last effect run
    fired             \* inference branches the last effect run took

vars == <<incomeStatement, pending, data, error, warned, fired>>

----------------------------------------------------------------------------
(* Bounds of the model *)

\* numeric field values range over -1 .. MaxAmount dollars
MaxAmount == 3
\* statements with at most MaxSparse keys carry every kind of raw value
MaxSparse == 2

----------------------------------------------------------------------------
(* Amounts *)

\* units per dollar: the denominators of 0.65, 0.7 and 0.75, and one decimal
Scale == 20 * 10 * 4 * 10

Dollars(n) == n * Scale

\* ratios of the inference chain, in percent
CogsRatio == 65
OpExRatio == 70
NetIncomeRatio == 75
RevenueFromGrossRatio == 150
OpIncomeFromNetRatio == 125

Times(x, pct) == (x * pct) \div 100

Abs(x) == IF x < 0 THEN 0 - x ELSE x

Max(a, b) == IF a >= b THEN a ELSE b

----------------------------------------------------------------------------
(* Raw statements *)

Fields == {"Revenue", "Cost_of_Revenue", "Gross_Profit",
           "Operating_Expenses", "Operating_Income", "Net_Income"}

StatementKeys == Fields \cup {"error"}

Null == [null |-> TRUE]

Undefined == [undefined |-> TRUE]

\* the values of the prop for which !incomeStatement holds
Falsy == {Null, Undefined}

\* a key the object does not have
Absent == [t |-> "absent"]

Num(n) == [t |-> "number", n |-> n]

Str(s) == [t |-> "string", s |-> s]

\* a value that is neither a string nor a number (null, boolean, object)
Other == [t |-> "other"]

Digits == {"0", "1", "2", "3", "4", "5", "6", "7", "8", "9"}

DigitVal == [c \in Digits |->
    CASE c = "0" -> 0 [] c = "1" -> 1 [] c = "2" -> 2 [] c = "3" -> 3
      [] c = "4" -> 4 [] c = "5" -> 5 [] c = "6" -> 6 [] c = "7" -> 7
      [] c = "8" -> 8 [] c = "9" -> 9]

StringSamples == {
    <<"1", ",", "0", "0", "0">>,
    <<"6", "0", "0">>,
    <<"-", "5", "0">>,
    <<"$", "2", ".", "5">>,
    <<"2", ".", "6">>,
    <<"U", "n", "k", "n", "o", "w", "n">>,
    <<"N", "/", "A">> }

NumberSamples == {Num(Dollars(n)) : n \in (0 - 1)..MaxAmount}

RawValues ==
    NumberSamples \cup {Num(Dollars(0 - 50))}
        \cup {Str(s) : s \in StringSamples} \cup {Other}

\* statements whose six fields are numbers or missing
NumericStatements ==
    {[k \in StatementKeys |-> IF k \in Fields THEN f[k] ELSE Absent] :
        f \in [Fields -> NumberSamples \cup {Absent}]}

\* statements with exactly the keys K, each of any raw value
SparseOver(K) ==
    {[k \in StatementKeys |-> IF k \in K THEN f[k] ELSE Absent] :
        f \in [K -> RawValues]}

SparseKeySets(m) == {K \in SUBSET StatementKeys : Cardinality(K) <= m}

\* statements with at most m keys, each of any raw value
SparseStatements(m) == UNION {SparseOver(K) : K \in SparseKeySets(m)}

\* the statements one run of the chain is examined on
InferStatements(m) == NumericStatements \cup SparseStatements(m)

LifecycleStatements == SparseStatements(1) \cup Falsy

----------------------------------------------------------------------------
(* Normalizer *)

CleanChar(c) == c \in Digits \cup {".", "-"}

\* mutant of cleanStr: nothing is stripped
cleanStr_KeepsAll(s) == s

\* value.toString().replace(/[^\d.-]/g, '')
cleanStr(s) == SelectSeq(s, CleanChar)

RECURSIVE DigitPrefix(_)
\* the longest prefix of s made of decimal digits
DigitPrefix(s) ==
    IF s # <<>> /\ Head(s) \in Digits
    THEN <<Head(s)>> \o DigitPrefix(Tail(s))
    ELSE <<>>

RECURSIVE IntegerPart(_)
\* the value, in units, of a run of digits before the decimal point
IntegerPart(ds) ==
    IF ds = <<>> THEN 0
    ELSE 10 * IntegerPart(SubSeq(ds, 1, Len(ds) - 1)) + Dollars(DigitVal[ds[Len(ds)]])

RECURSIVE FractionPart(_, _)
\* the value, in units, of a run of digits after the decimal point, the
\* first of them worth `unit`
FractionPart(ds, unit) ==
    IF ds = <<>> THEN 0
    ELSE DigitVal[Head(ds)] * unit + FractionPart(Tail(ds), unit \div 10)

NaN == [nan |-> TRUE, v |-> 0]

\* parseFloat on a string of digits, '.' and '-': an optional sign, digits,
\* an optional fraction; whatever follows the longest such prefix is ignored
parseFloat(s) ==
    LET neg  == s # <<>> /\ Head(s) = "-"
        body == IF neg THEN Tail(s) ELSE s
        int  == DigitPrefix(body)
        rest == SubSeq(body, Len(int) + 1, Len(body))
        frac == IF rest # <<>> /\ Head(rest) = "."
                THEN DigitPrefix(Tail(rest)) ELSE <<>>
        mag  == IntegerPart(int) + FractionPart(frac, Scale \div 10)
    IN  IF int = <<>> /\ frac = <<>> THEN NaN
        ELSE [nan |-> FALSE, v |-> IF neg THEN 0 - mag ELSE mag]

Unknown == <<"U", "n", "k", "n", "o", "w", "n">>

\* the number a raw value is converted to, or NaN when the field is rejected
Convert(value) ==
    IF value.t = "string"
    THEN IF value.s # Unknown THEN parseFloat(cleanStr(value.s)) ELSE NaN
    ELSE IF value.t = "number" THEN [nan |-> FALSE, v |-> value.n]
    ELSE NaN

\* the keys Object.entries yields, less the skipped error key
Processed(stmt) == {k \in StatementKeys : stmt[k] # Absent /\ k # "error"}

Normalize(stmt) ==
    LET accepted == {k \in Processed(stmt) : ~Convert(stmt[k]).nan}
    IN  [cleanedData   |-> [k \in accepted |-> Convert(stmt[k]).v],
         unknownFields |-> Processed(stmt) \ accepted]

hasInvalidValues(cleanedData) == \E k \in DOMAIN cleanedData : cleanedData[k] = 0

hasSufficientData(cleanedData) == Cardinality(DOMAIN cleanedData) >= 2

----------------------------------------------------------------------------
(* Inference *)

\* cleanedData.X || 0
OrZero(cleanedData, f) ==
    IF f \in DOMAIN cleanedData /\ cleanedData[f] # 0 THEN cleanedData[f] ELSE 0

Defaults(cleanedData) == [f \in Fields |-> OrZero(cleanedData, f)]

\* A run of the chain: the record being mutated and the branches taken.
Start(cleanedData) == [fd |-> Defaults(cleanedData), took |-> {}]

Set(r, f, x, branch) ==
    [fd |-> [r.fd EXCEPT ![f] = x], took |-> r.took \cup {branch}]

\* mutant of Rule1: the estimate takes Gross_Profit by the COGS ratio too
Rule1_GrossByRatio(r) ==
    IF r.fd.Revenue > 0
    THEN IF r.fd.Gross_Profit = 0
         THEN IF r.fd.Cost_of_Revenue > 0
              THEN Set(r, "Gross_Profit",
                       r.fd.Revenue - r.fd.Cost_of_Revenue, "1:gross=rev-cost")
              ELSE LET c == Set(r, "Cost_of_Revenue",
                                Times(r.fd.Revenue, CogsRatio), "1:cost=ratio")
                   IN  Set(c, "Gross_Profit",
                           Times(c.fd.Revenue, CogsRatio), "1:gross=rev-cost")
         ELSE IF r.fd.Cost_of_Revenue = 0
              THEN Set(r, "Cost_of_Revenue",
                       r.fd.Revenue - r.fd.Gross_Profit, "1:cost=rev-gross")
              ELSE r
    ELSE r

\* Revenue exists but Cost_of_Revenue and Gross_Profit do not align
Rule1(r) ==
    IF r.fd.Revenue > 0
    THEN IF r.fd.Gross_Profit = 0
         THEN IF r.fd.Cost_of_Revenue > 0
              THEN Set(r, "Gross_Profit",
                       r.fd.Revenue - r.fd.Cost_of_Revenue, "1:gross=rev-cost")
              ELSE LET c == Set(r, "Cost_of_Revenue",
                                Times(r.fd.Revenue, CogsRatio), "1:cost=ratio")
                   IN  Set(c, "Gross_Profit",
                           c.fd.Revenue - c.fd.Cost_of_Revenue, "1:gross=rev-cost")
         ELSE IF r.fd.Cost_of_Revenue = 0
              THEN Set(r, "Cost_of_Revenue",
                       r.fd.Revenue - r.fd.Gross_Profit, "1:cost=rev-gross")
              ELSE r
    ELSE r

\* mutant of Rule2: a given Operating_Expenses is estimated over
Rule2_AlwaysEstimates(r) ==
    IF r.fd.Gross_Profit > 0
    THEN IF r.fd.Operating_Income = 0
         THEN LET e == Set(r, "Operating_Expenses",
                           Times(r.fd.Gross_Profit, OpExRatio), "2:opex=ratio")
              IN  Set(e, "Operating_Income",
                      e.fd.Gross_Profit - e.fd.Operating_Expenses, "2:opinc=gross-opex")
         ELSE IF r.fd.Operating_Expenses = 0
              THEN Set(r, "Operating_Expenses",
                       r.fd.Gross_Profit - r.fd.Operating_Income, "2:opex=gross-opinc")
              ELSE r
    ELSE r

\* Operating income calculation
Rule2(r) ==
    IF r.fd.Gross_Profit > 0
    THEN IF r.fd.Operating_Income = 0
         THEN IF r.fd.Operating_Expenses > 0
              THEN Set(r, "Operating_Income",
                       r.fd.Gross_Profit - r.fd.Operating_Expenses, "2:opinc=gross-opex")
              ELSE LET e == Set(r, "Operating_Expenses",
                                Times(r.fd.Gross_Profit, OpExRatio), "2:opex=ratio")
                   IN  Set(e, "Operating_Income",
                           e.fd.Gross_Profit - e.fd.Operating_Expenses, "2:opinc=gross-opex")
         ELSE IF r.fd.Operating_Expenses = 0
              THEN Set(r, "Operating_Expenses",
                       r.fd.Gross_Profit - r.fd.Operating_Income, "2:opex=gross-opinc")
              ELSE r
    ELSE r

\* Net income calculation
Rule3(r) ==
    IF r.fd.Operating_Income # 0 /\ r.fd.Net_Income = 0
    THEN Set(r, "Net_Income", Times(r.fd.Operating_Income, NetIncomeRatio), "3:net=ratio")
    ELSE r

\* mutant of Rule4: the test that Revenue is 0 is missing
Rule4_IgnoresRevenue(r) ==
    IF r.fd.Gross_Profit > 0
    THEN LET v == Set(r, "Revenue",
                      Times(r.fd.Gross_Profit, RevenueFromGrossRatio), "4:rev=ratio")
         IN  Set(v, "Cost_of_Revenue",
                 v.fd.Revenue - v.fd.Gross_Profit, "4:cost=rev-gross")
    ELSE r

\* Revenue estimated from gross profit
Rule4(r) ==
    IF r.fd.Revenue = 0 /\ r.fd.Gross_Profit > 0
    THEN LET v == Set(r, "Revenue",
                      Times(r.fd.Gross_Profit, RevenueFromGrossRatio), "4:rev=ratio")
         IN  Set(v, "Cost_of_Revenue",
                 v.fd.Revenue - v.fd.Gross_Profit, "4:cost=rev-gross")
    ELSE r

\* mutant of Rule5: the reverse estimate uses the forward ratio
Rule5_ForwardRatio(r) ==
    IF r.fd.Net_Income # 0 /\ r.fd.Operating_Income = 0
    THEN Set(r, "Operating_Income",
             Times(r.fd.Net_Income, NetIncomeRatio), "5:opinc=ratio")
    ELSE r

\* Net Income exists but other values are missing
Rule5(r) ==
    IF r.fd.Net_Income # 0 /\ r.fd.Operating_Income = 0
    THEN Set(r, "Operating_Income",
             Times(r.fd.Net_Income, OpIncomeFromNetRatio), "5:opinc=ratio")
    ELSE r

Infer(cleanedData) == Rule5(Rule4(Rule3(Rule2(Rule1(Start(cleanedData))))))

----------------------------------------------------------------------------
(* Graph builder *)

minFlowValue == Dollars(1)

\* mutant of FlowMagnitude: the magnitude without the floor
FlowMagnitude_NoFloor(x) == Abs(x)

\* Math.max(minFlowValue, Math.abs(x))
FlowMagnitude(x) == Max(minFlowValue, Abs(x))

Nodes(fd) == <<
    [name |-> "Revenue",      value |-> fd.Revenue],
    [name |-> "Cost",         value |-> fd.Cost_of_Revenue],
    [name |-> "Gross Profit", value |-> fd.Gross_Profit],
    [name |-> "Op Expenses",  value |-> fd.Operating_Expenses],
    [name |-> "Op Income",    value |-> fd.Operating_Income],
    [name |-> "Net Income",   value |-> fd.Net_Income] >>

Link(s, t, x) ==
    [source |-> s, target |-> t, value |-> FlowMagnitude(x), absoluteValue |-> x]

\* source and target are the 0-based node indices of the code
Links(fd) == <<
    Link(0, 1, fd.Cost_of_Revenue),
    Link(0, 2, fd.Gross_Profit),
    Link(2, 3, fd.Operating_Expenses),
    Link(2, 4, fd.Operating_Income),
    Link(4, 5, fd.Net_Income) >>

\* the tolerance 0.1 of the flow checks
FlowTolerance == Scale \div 10

Mismatch(in, out) == Abs(in - out) > FlowTolerance

\* the console.warn calls of one run of the effect
Warnings(cleanedData, fd) ==
    LET revenue           == FlowMagnitude(fd.Revenue)
        costOfRevenue     == FlowMagnitude(fd.Cost_of_Revenue)
        grossProfit       == FlowMagnitude(fd.Gross_Profit)
        operatingExpenses == FlowMagnitude(fd.Operating_Expenses)
        operatingIncome   == FlowMagnitude(fd.Operating_Income)
        netIncome         == FlowMagnitude(fd.Net_Income)
    IN  (IF ~hasSufficientData(cleanedData) \/ hasInvalidValues(cleanedData)
         THEN {"Data validation failed"} ELSE {})
        \cup (IF Mismatch(revenue, costOfRevenue + grossProfit)
              THEN {"Revenue flow mismatch"} ELSE {})
        \cup (IF Mismatch(grossProfit, operatingExpenses + operatingIncome)
              THEN {"Gross profit flow mismatch"} ELSE {})
        \cup (IF Mismatch(operatingIncome, netIncome)
              THEN {"Operating income flow mismatch"} ELSE {})

\* what one run of the effect computes from a statement
Build(stmt) ==
    LET cleanedData == Normalize(stmt).cleanedData
        run         == Infer(cleanedData)
    IN  [data   |-> [nodes |-> Nodes(run.fd), links |-> Links(run.fd)],
         warned |-> Warnings(cleanedData, run.fd),
         took   |-> run.took]

----------------------------------------------------------------------------
(* The component *)

\* useState(null) twice; the first render is done and its effect is due
Mount(statements) ==
    /\ incomeStatement \in statements
    /\ pending = TRUE
    /\ data = Null
    /\ error = Null
    /\ warned = {}
    /\ fired = {}

\* The effect with no statement: it logs and returns.
EffectNoStatement ==
    /\ pending
    /\ incomeStatement \in Falsy
    /\ pending' = FALSE
    /\ warned' = {}
    /\ fired' = {}
    /\ UNCHANGED <<incomeStatement, data, error>>

\* The effect with a statement: normalizer, inference chain, builder,
\* setData and setError(null).  Nothing in the try block throws on a
\* statement whose values are strings, numbers or plain other values.
EffectBuild ==
    /\ pending
    /\ incomeStatement \notin Falsy
    /\ LET b == Build(incomeStatement)
       IN  /\ data' = b.data
           /\ warned' = b.warned
           /\ fired' = b.took
    /\ error' = Null
    /\ pending' = FALSE
    /\ UNCHANGED incomeStatement

\* The parent renders the component with another statement; the effect is
\* due again because the dependency [incomeStatement] changed.
Rerender ==
    /\ ~pending
    /\ \E s \in LifecycleStatements :
          /\ s \in Falsy => s # incomeStatement
          /\ incomeStatement' = s
    /\ pending' = TRUE
    /\ UNCHANGED <<data, error, warned, fired>>

Init == Mount(LifecycleStatements)

Next == EffectNoStatement \/ EffectBuild \/ Rerender

\* the component over its life: any sequence of statements
Spec == Init /\ [][Next]_vars

InitInfer ==
    \/ Mount(NumericStatements)
    \/ \E K \in SparseKeySets(MaxSparse) : Mount(SparseOver(K))

NextInfer == EffectBuild

\* one statement, processed once by a freshly mounted component
SpecInfer == InitInfer /\ [][NextInfer]_vars

----------------------------------------------------------------------------
(* Vocabulary of the properties *)

\* CleanedFields of the statement the component holds
cleaned == Normalize(incomeStatement).cleanedData

Given(f) == f \in DOMAIN cleaned

\* a run of the effect has built a graph from the statement held
Built == ~pending /\ incomeStatement \notin Falsy

NodeIndex == [Revenue |-> 1, Cost_of_Revenue |-> 2, Gross_Profit |-> 3,
              Operating_Expenses |-> 4, Operating_Income |-> 5, Net_Income |-> 6]

\* the final FinancialData field the graph carries on its node
Final(f) == data.nodes[NodeIndex[f]].value

StatementOf(given) ==
    [k \in StatementKeys |-> IF k \in DOMAIN given THEN given[k] ELSE Absent]

----------------------------------------------------------------------------
(* C1 *)

\* C1: whenever a graph is held, it has five links and the layout value of
\* each is at least 1 dollar, whatever the sign or size of the fields.
C1_LinkValuesAtLeastFloor ==
    data # Null =>
        /\ Len(data.links) = 5
        /\ \A i \in 1..5 : data.links[i].value >= Dollars(1)

\* a graph with a negative field and a zero field drawn at the floor
C1_Witness ==
    /\ Built
    /\ \E i \in 1..5 : data.links[i].absoluteValue < 0
    /\ \E j \in 1..5 : /\ data.links[j].absoluteValue = 0
                       /\ data.links[j].value = Dollars(1)

----------------------------------------------------------------------------
(* C2 *)

\* C2: once the effect has run on a null or undefined statement, the error
\* state is set and no graph is held.
C2_NullSurfacesFailure ==
    (~pending /\ incomeStatement \in Falsy) => (error # Null /\ data = Null)

----------------------------------------------------------------------------
(* C3 *)

\* what a freshly mounted component holds after processing s
FreshResult(s) ==
    IF s \in Falsy
    THEN [data |-> Null, error |-> Null]
    ELSE [data |-> Build(s).data, error |-> Null]

\* C3: after the effect has run, the held graph and error are those a
\* freshly mounted component would hold for the same statement: nothing of
\* an earlier statement is carried over.
C3_ResultOfLatestInputAlone ==
    ~pending =>
        /\ data = FreshResult(incomeStatement).data
        /\ error = FreshResult(incomeStatement).error

----------------------------------------------------------------------------
(* C4 *)

C4_Pre == Built /\ DOMAIN cleaned = {"Revenue"} /\ cleaned.Revenue > 0

\* C4: when a positive Revenue is the only field of the statement,
\* Cost_of_Revenue ends as 0.65 x Revenue and Gross_Profit as 0.35 x Revenue.
C4_RevenueOnlySplit ==
    C4_Pre =>
        /\ 100 * Final("Cost_of_Revenue") = 65 * cleaned.Revenue
        /\ 100 * Final("Gross_Profit") = 35 * cleaned.Revenue

\* the statement {Revenue: "1,000"} processed: 650 and 350
C4_Witness ==
    /\ C4_Pre
    /\ incomeStatement = StatementOf([Revenue |-> Str(<<"1", ",", "0", "0", "0">>)])
    /\ Final("Cost_of_Revenue") = Dollars(650)
    /\ Final("Gross_Profit") = Dollars(350)

----------------------------------------------------------------------------
(* C5 *)

C5_Pre ==
    /\ Built
    /\ Given("Gross_Profit") /\ cleaned.Gross_Profit > 0
    /\ Given("Operating_Expenses")
    /\ ~Given("Operating_Income")

----------------------------------------------------------------------------
(* C6 *)

C6_Pre == Built /\ DOMAIN cleaned = {"Net_Income"} /\ cleaned.Net_Income # 0

\* C6: when a non-zero Net_Income is the only field given, Operating_Income
\* ends as 1.25 x Net_Income, Net_Income is unchanged, and the link from
\* Op Income to Net Income carries the signed Net_Income as absoluteValue
\* and its magnitude, floored at 1, as layout value.
C6_NetIncomeOnly ==
    C6_Pre =>
        /\ 100 * Final("Operating_Income") = 125 * cleaned.Net_Income
        /\ Final("Net_Income") = cleaned.Net_Income
        /\ data.links[5] =
             [source |-> 4, target |-> 5,
              value |-> IF Abs(cleaned.Net_Income) >= Dollars(1)
                        THEN Abs(cleaned.Net_Income) ELSE Dollars(1),
              absoluteValue |-> cleaned.Net_Income]

\* the statement {Net_Income: -50} processed: -62.5, -50 and 50
C6_Witness ==
    /\ Built
    /\ incomeStatement = StatementOf([Net_Income |-> Num(Dollars(0 - 50))])
    /\ 2 * Final("Operating_Income") = Dollars(0 - 125)
    /\ data.links[5].absoluteValue = Dollars(0 - 50)
    /\ data.links[5].value = Dollars(50)

----------------------------------------------------------------------------
(* C7 *)

C7_Statement ==
    StatementOf([Revenue         |-> Str(<<"1", ",", "0", "0", "0">>),
                 Cost_of_Revenue |-> Str(<<"6", "0", "0">>)])

C7_Amounts == <<Dollars(1000), Dollars(600), Dollars(400),
                Dollars(280), Dollars(120), Dollars(90)>>

C7_Result ==
    /\ cleaned = [Revenue |-> Dollars(1000), Cost_of_Revenue |-> Dollars(600)]
    /\ \A i \in 1..6 : data.nodes[i].value = C7_Amounts[i]
    /\ \A i \in 1..5 : /\ data.links[i].value = C7_Amounts[i + 1]
                       /\ data.links[i].absoluteValue = C7_Amounts[i + 1]
    /\ <<data.links[1].target, data.links[2].target, data.links[3].target,
         data.links[4].target, data.links[5].target>> = <<1, 2, 3, 4, 5>>

\* C7: the statement {Revenue: "1,000", Cost_of_Revenue: "600"} is cleaned
\* to 1000 and 600 and ends as 1000, 600, 400, 280, 120, 90; the five links
\* carry 600, 400, 280, 120, 90 as layout value and as absoluteValue, in the
\* order Cost, Gross, OpEx, OpInc, Net.
C7_CommaStringExample == (Built /\ incomeStatement = C7_Statement) => C7_Result

\* that statement has been processed, with rule 2 and rule 3 estimating
C7_Witness ==
    /\ Built /\ incomeStatement = C7_Statement
    /\ fired = {"1:gross=rev-cost", "2:opex=ratio", "2:opinc=gross-opex", "3:net=ratio"}
    /\ data.links[3].value = Dollars(280)

----------------------------------------------------------------------------
(* C8 *)

\* C8: a field given in the statement with a non-zero cleaned value keeps
\* that value through the inference chain.
C8_SuppliedNeverReplaced ==
    Built => \A f \in DOMAIN cleaned : cleaned[f] # 0 => Final(f) = cleaned[f]

----------------------------------------------------------------------------
(* C9 *)

Rule1SetCost == fired \cap {"1:cost=ratio", "1:cost=rev-gross"} # {}

Rule4SetCost == "4:cost=rev-gross" \in fired

\* C9 as claimed: some statement (the one held, or any other) makes rule 1
\* set Cost_of_Revenue and rule 4 overwrite it in the same run.
C9_Original ==
    \E s \in InferStatements(MaxSparse) \cup {incomeStatement} :
        LET took == Build(s).took
        IN  /\ took \cap {"1:cost=ratio", "1:cost=rev-gross"} # {}
            /\ "4:cost=rev-gross" \in took

\* C9 amended: in no run does rule 4 overwrite a Cost_of_Revenue that
\* rule 1 set; when rule 4 sets Cost_of_Revenue, Revenue was 0 and rule 1
\* did nothing.
C9_Rule4NeverOverwritesRule1 ==
    Rule4SetCost => (~Rule1SetCost /\ OrZero(cleaned, "Revenue") = 0)

\* rule 4 has replaced a Cost_of_Revenue given in the statement
C9_Witness ==
    /\ Built /\ Rule4SetCost
    /\ Given("Cost_of_Revenue") /\ cleaned.Cost_of_Revenue > 0
    /\ Final("Cost_of_Revenue") # cleaned.Cost_of_Revenue

----------------------------------------------------------------------------
(* C10 *)

C10_Pre ==
    /\ Built
    /\ Given("Revenue") /\ cleaned.Revenue > 0
    /\ ~Given("Cost_of_Revenue") /\ ~Given("Gross_Profit")

C10_Conserved ==
    LET revenue == IF Abs(Final("Revenue")) >= Dollars(1)
                   THEN Abs(Final("Revenue")) ELSE Dollars(1)
        out     == data.links[1].value + data.links[2].value
    IN  /\ 10 * Abs(revenue - out) <= Dollars(1)
        /\ "Revenue flow mismatch" \notin warned

\* C10 as claimed: with Revenue > 0 and neither Cost_of_Revenue nor
\* Gross_Profit given, the two links out of Revenue sum to the floored
\* Revenue magnitude within 0.1 and the mismatch diagnostic is silent.
C10_Original == C10_Pre => C10_Conserved

\* C10 amended: the same, provided 0.35 x Revenue is at least 0.9, so that
\* flooring Gross_Profit at 1 adds no more than 0.1.
C10_RevenueFlowConserved ==
    (C10_Pre /\ 35 * cleaned.Revenue >= Dollars(90)) => C10_Conserved

\* Revenue 2.6: Gross_Profit 0.91 is drawn at the floor, within tolerance
C10_Witness ==
    /\ C10_Pre /\ 35 * cleaned.Revenue >= Dollars(90)
    /\ data.links[2].absoluteValue < Dollars(1)
    /\ data.links[2].value = Dollars(1)
    /\ data.links[1].value + data.links[2].value > Final("Revenue")

====
